---------------------------- MODULE Spec2Model ----------------------------
(***************************************************************************)
(* Verification model of the atomic-operations benchmarks of bench_guide:  *)
(*   - 1700_atomic_operations/lse_benchmark.c : a shared counter that is   *)
(*     incremented by NUM_THREADS workers, once with a load-exclusive /    *)
(*     store-exclusive retry loop and once with atomic_fetch_add;          *)
(*   - the lock-free queue benchmark (unnamed/part_003): a circular buffer *)
(*     shared by producer and consumer threads.                            *)
(* Every access to shared memory is one step of the thread that makes it,  *)
(* so every interleaving of the threads' accesses is a behaviour.          *)
(***************************************************************************)
EXTENDS Integers, Sequences, FiniteSets, Bags, TLC

(***************************************************************************)
(* Bounds of the model.                                                    *)
(***************************************************************************)
MaxThreads == 3        \* counter benchmark: NUM_THREADS ranges over 1..MaxThreads
MaxIterations == 6     \* counter benchmark: ITERATIONS ranges over 1..MaxIterations
MaxItems == 1          \* queue benchmark: ITEMS_PER_PRODUCER ranges over 1..MaxItems
MaxSize == 3           \* queue benchmark: QUEUE_SIZE ranges over 2..MaxSize
SpscItems == 5         \* one producer, one consumer: ITEMS_PER_PRODUCER in 1..SpscItems
SpscSize == 4          \* one producer, one consumer: QUEUE_SIZE in 2..SpscSize

(***************************************************************************)
(* Program constants.                                                      *)
(***************************************************************************)
NUM_PRODUCERS == 2
NUM_CONSUMERS == 2
QUEUE_SIZE_COMPILED == 1000000
ITEMS_PER_PRODUCER_COMPILED == 1000000

\* What an uninitialised int (malloc'ed memory) may hold when it is read.
Garbage == {0 - 1, 0}

\* A C int: 32 bits, two's complement; a sum that leaves the range wraps around.
WrapInt32(x) ==
  IF x > 2147483647 THEN ((x - 2147483647) - 2147483647) - 2
  ELSE IF x < 0 - 2147483647 - 1 THEN ((x + 2147483647) + 2147483647) + 2
  ELSE x

\* The sum of two C ints as a 32-bit unit gives it: the result modulo 2^32,
\* worked out without leaving the range on the way.
AddInt32(a, b) ==
  IF b > 0 /\ a > 2147483647 - b
  THEN (a - 2147483647 - 1) + (b - 2147483647 - 1)
  ELSE IF b < 0 /\ a < (0 - 2147483647 - 1) - b
  THEN (a + 2147483647 + 1) + (b + 2147483647 + 1)
  ELSE a + b

VARIABLES
  \* ---- lse_benchmark.c ----
  NUM_THREADS,      \* the compiled-in thread count of the run
  ITERATIONS,       \* the compiled-in total iteration count of the run
  mainPc,           \* position of main
  mainI,            \* main's loop index i
  counterPtr,       \* the pointers counter_ldstex and counter_lse, by name
  counter,          \* *counter_ldstex and *counter_lse, by name
  fetched,          \* history: the old values the atomic_fetch_add calls were given
  thread_args,      \* thread_args_ldstex[] and thread_args_lse[]
  thr,              \* the workers: position and locals of atomic_increment_thread
  monitor,          \* the exclusive monitor of each worker's core
  out,              \* what main has printed
  exitStatus,       \* main's return value, "none" while it runs
  \* ---- lock-free queue benchmark ----
  nProducers,       \* NUM_PRODUCERS of the run
  nConsumers,       \* NUM_CONSUMERS of the run
  ITEMS_PER_PRODUCER,
  QUEUE_SIZE,
  qMainPc,          \* position of main
  qMainI,           \* main's loop index i
  qMainJ,           \* main's loop index j (line 189)
  queue,            \* the lockfree_queue_t: buffer (the pointer), head, tail, size
  bufferMem,        \* the ints stored so far in the block queue.buffer points to
  freshSlots,       \* the slots stored to and not read by a dequeue since
  total,            \* main's _Atomic int total
  expected_total,   \* main's expected_total
  prod,             \* the producers: position and locals
  cons,             \* the consumers: position and locals
  producer_args,
  consumer_args,
  enqueued,         \* per producer, the items of its successful enqueues, in order
  dequeued,         \* per consumer, the items of its successful dequeues, in order
  qOut,             \* what main has printed
  qExit             \* main's return value, "none" while it runs, "crash" on a fault

counterVars == <<NUM_THREADS, ITERATIONS, mainPc, mainI, counterPtr, counter, fetched,
                 thread_args, thr, monitor, out, exitStatus>>
queueVars == <<nProducers, nConsumers, ITEMS_PER_PRODUCER, QUEUE_SIZE, qMainPc,
               qMainI, qMainJ, queue, bufferMem, freshSlots, total, expected_total, prod, cons,
               producer_args, consumer_args, enqueued, dequeued, qOut, qExit>>
vars == <<counterVars, queueVars>>

(***************************************************************************)
(*                      lse_benchmark.c                                    *)
(***************************************************************************)
Scenarios == {"ldstex", "lse"}
Workers == Scenarios \X (0 .. NUM_THREADS - 1)

NoArg == [thread_id |-> 0, num_iterations |-> 0, counter |-> "null", use_lse |-> 0]
Unborn == [pc |-> "unborn", i |-> 0, old_val |-> 0, store_result |-> 0]

\* The position of a worker whose loop index is i: the for loops of lines 34, 39.
LoopPc(use_lse, i, iterations) ==
  IF i < iterations THEN (IF use_lse # 0 THEN "fetch_add" ELSE "ldxr") ELSE "done"

\* A mutant: a store that leaves the other cores' exclusive monitors set.
KeepMonitors(c) == monitor

\* A store to counter c clears the exclusive monitor of every core that marks it.
ClearMonitors(c) == [t \in Workers |-> IF monitor[t] = c THEN "none" ELSE monitor[t]]

\* A mutant: a store-exclusive that commits whether or not the monitor is still set.
StxrAlwaysCommits(t) == {0}

\* A mutant: a store-exclusive that never commits.
StxrNeverCommits(t) == {1}

\* The results a store-exclusive may give: 0 (committed) only while this thread's
\* monitor still marks the counter; 1 (failed) when another store has cleared it,
\* or for a reason of the core's own (a context switch clears the monitor too).
StxrOutcomes(t) == IF monitor[t] = thread_args[t].counter THEN {0, 1} ELSE {1}

InitCounterVars ==
  /\ NUM_THREADS \in 1 .. MaxThreads
  /\ ITERATIONS \in 1 .. MaxIterations
  /\ mainPc = "alloc"
  /\ mainI = 0
  /\ counterPtr = [s \in Scenarios |-> "unset"]
  /\ fetched = {}
  /\ counter \in [Scenarios -> Garbage]
  /\ thread_args = [t \in Workers |-> NoArg]
  /\ thr = [t \in Workers |-> Unborn]
  /\ monitor = [t \in Workers |-> "none"]
  /\ out = <<>>
  /\ exitStatus = "none"

\* A mutant: the two mallocs without the check of lines 85-88.
AllocUnchecked ==
  /\ mainPc = "alloc"
  /\ \E ok_ldstex \in BOOLEAN, ok_lse \in BOOLEAN :
       counterPtr' = [s \in Scenarios |->
                       IF (s = "ldstex" /\ ok_ldstex) \/ (s = "lse" /\ ok_lse)
                       THEN "block" ELSE "null"]
  /\ counter' = [s \in Scenarios |-> 0]
  /\ mainPc' = "create_ldstex"
  /\ mainI' = 0
  /\ UNCHANGED <<NUM_THREADS, ITERATIONS, fetched, thread_args, thr, monitor, out, exitStatus>>

\* lines 82-91: the two mallocs, the check, the zeroing.
Alloc ==
  /\ mainPc = "alloc"
  /\ \E ok_ldstex \in BOOLEAN, ok_lse \in BOOLEAN :
       /\ counterPtr' = [s \in Scenarios |->
                          IF (s = "ldstex" /\ ok_ldstex) \/ (s = "lse" /\ ok_lse)
                          THEN "block" ELSE "null"]
       /\ IF ok_ldstex /\ ok_lse
          THEN /\ counter' = [s \in Scenarios |-> 0]
               /\ mainPc' = "create_ldstex"
               /\ UNCHANGED <<out, exitStatus>>
          ELSE /\ out' = Append(out, [line |-> "malloc", value |-> 0])
               /\ exitStatus' = "1"
               /\ mainPc' = "returned"
               /\ UNCHANGED counter
  /\ mainI' = 0
  /\ UNCHANGED <<NUM_THREADS, ITERATIONS, fetched, thread_args, thr, monitor>>

\* A mutant: every worker is handed the LD/ST-EX counter.
CreateOnOneCounter(s) ==
  /\ mainPc = "create_" \o s
  /\ mainI < NUM_THREADS
  /\ thread_args' = [thread_args EXCEPT ![<<s, mainI>>] =
        [thread_id |-> mainI,
         num_iterations |-> ITERATIONS \div NUM_THREADS,
         counter |-> "ldstex",
         use_lse |-> IF s = "lse" THEN 1 ELSE 0]]
  /\ thr' = [thr EXCEPT ![<<s, mainI>>].pc = "start"]
  /\ mainI' = IF mainI + 1 < NUM_THREADS THEN mainI + 1 ELSE 0
  /\ mainPc' = IF mainI + 1 < NUM_THREADS THEN mainPc ELSE "join_" \o s
  /\ UNCHANGED <<NUM_THREADS, ITERATIONS, fetched, counterPtr, counter, monitor, out, exitStatus>>

\* lines 103-110 and 128-135: one turn of a creation loop.
CreateThread(s) ==
  /\ mainPc = "create_" \o s
  /\ mainI < NUM_THREADS
  /\ thread_args' = [thread_args EXCEPT ![<<s, mainI>>] =
        [thread_id |-> mainI,
         num_iterations |-> ITERATIONS \div NUM_THREADS,
         counter |-> s,
         use_lse |-> IF s = "lse" THEN 1 ELSE 0]]
  /\ thr' = [thr EXCEPT ![<<s, mainI>>].pc = "start"]
  /\ mainI' = IF mainI + 1 < NUM_THREADS THEN mainI + 1 ELSE 0
  /\ mainPc' = IF mainI + 1 < NUM_THREADS THEN mainPc ELSE "join_" \o s
  /\ UNCHANGED <<NUM_THREADS, ITERATIONS, fetched, counterPtr, counter, monitor, out, exitStatus>>

\* A mutant: a join that does not wait for the worker's return.
JoinWithoutWaiting(s) ==
  /\ mainPc = "join_" \o s
  /\ mainI < NUM_THREADS
  /\ mainI' = IF mainI + 1 < NUM_THREADS THEN mainI + 1 ELSE 0
  /\ mainPc' = IF mainI + 1 < NUM_THREADS THEN mainPc ELSE "report_" \o s
  /\ UNCHANGED <<NUM_THREADS, ITERATIONS, fetched, counterPtr, counter, thread_args, thr, monitor, out,
                 exitStatus>>

\* lines 112-114 and 137-139: one pthread_join, which waits for the worker's return.
JoinThread(s) ==
  /\ mainPc = "join_" \o s
  /\ mainI < NUM_THREADS
  /\ thr[<<s, mainI>>].pc = "done"
  /\ mainI' = IF mainI + 1 < NUM_THREADS THEN mainI + 1 ELSE 0
  /\ mainPc' = IF mainI + 1 < NUM_THREADS THEN mainPc ELSE "report_" \o s
  /\ UNCHANGED <<NUM_THREADS, ITERATIONS, fetched, counterPtr, counter, thread_args, thr, monitor, out,
                 exitStatus>>

\* lines 119-122 and 144-155: the report of a scenario; after the second, return 0.
Report(s) ==
  /\ mainPc = "report_" \o s
  /\ out' = Append(out, [line |-> "Final counter value", value |-> counter[s]])
  /\ mainPc' = IF s = "ldstex" THEN "create_lse" ELSE "returned"
  /\ exitStatus' = IF s = "ldstex" THEN exitStatus ELSE "0"
  /\ mainI' = 0
  /\ UNCHANGED <<NUM_THREADS, ITERATIONS, fetched, counterPtr, counter, thread_args, thr, monitor>>

\* lines 28-32, and the first test of the loop the worker enters.
ThreadStart(t) ==
  /\ thr[t].pc = "start"
  /\ thr' = [thr EXCEPT ![t].i = 0,
                        ![t].pc = LoopPc(thread_args[t].use_lse, 0,
                                         thread_args[t].num_iterations)]
  /\ UNCHANGED <<NUM_THREADS, ITERATIONS, fetched, counterPtr, mainPc, mainI, counter, thread_args,
                 monitor, out, exitStatus>>

\* A mutant: a fetch-and-add whose store is lost when another worker is about to
\* add as well.
LostFetchAdd(t) ==
  /\ thr[t].pc = "fetch_add"
  /\ LET c == thread_args[t].counter IN
       /\ counter' = IF \E w \in Workers \ {t} : thr[w].pc = "fetch_add"
                     THEN counter
                     ELSE [counter EXCEPT ![c] = WrapInt32(counter[c] + 1)]
       /\ monitor' = ClearMonitors(c)
       /\ fetched' = fetched \cup {counter[c]}
  /\ thr' = [thr EXCEPT ![t].i = thr[t].i + 1,
                        ![t].pc = LoopPc(thread_args[t].use_lse, thr[t].i + 1,
                                         thread_args[t].num_iterations)]
  /\ UNCHANGED <<NUM_THREADS, ITERATIONS, counterPtr, mainPc, mainI, thread_args, out, exitStatus>>

\* line 35: atomic_fetch_add(counter, 1), one indivisible read-modify-write (the
\* old value it returns, which the code drops, is kept in fetched); then i++ and
\* the loop test.
FetchAdd(t) ==
  /\ thr[t].pc = "fetch_add"
  /\ LET c == thread_args[t].counter IN
       /\ counter' = [counter EXCEPT ![c] = WrapInt32(counter[c] + 1)]
       /\ monitor' = ClearMonitors(c)
       /\ fetched' = fetched \cup {counter[c]}
  /\ thr' = [thr EXCEPT ![t].i = thr[t].i + 1,
                        ![t].pc = LoopPc(thread_args[t].use_lse, thr[t].i + 1,
                                         thread_args[t].num_iterations)]
  /\ UNCHANGED <<NUM_THREADS, ITERATIONS, counterPtr, mainPc, mainI, thread_args, out, exitStatus>>

\* lines 43-46: ldxr reads the counter and sets this thread's exclusive monitor.
Ldxr(t) ==
  /\ thr[t].pc = "ldxr"
  /\ thr' = [thr EXCEPT ![t].old_val = counter[thread_args[t].counter],
                        ![t].pc = "stxr"]
  /\ monitor' = [monitor EXCEPT ![t] = thread_args[t].counter]
  /\ UNCHANGED <<NUM_THREADS, ITERATIONS, fetched, counterPtr, mainPc, mainI, counter, thread_args, out,
                 exitStatus>>

\* lines 48-58: new_val = old_val + 1, the stxr, and the test of store_result.
\* The statement is modelled by what it is written to do, a store-exclusive of
\* new_val whose result the do-while tests. (As written, store_result is declared
\* inside the loop body and tested after it, and the template's %w1 names the "=m"
\* operand, new_val being operand 2.)
Stxr(t) ==
  /\ thr[t].pc = "stxr"
  /\ \E r \in StxrOutcomes(t) :
       LET c == thread_args[t].counter IN
         IF r = 0
         THEN /\ counter' = [counter EXCEPT ![c] = WrapInt32(thr[t].old_val + 1)]
              /\ monitor' = ClearMonitors(c)
              /\ thr' = [thr EXCEPT ![t].store_result = 0,
                                    ![t].i = thr[t].i + 1,
                                    ![t].pc = LoopPc(thread_args[t].use_lse, thr[t].i + 1,
                                                     thread_args[t].num_iterations)]
         ELSE /\ monitor' = [monitor EXCEPT ![t] = "none"]
              /\ thr' = [thr EXCEPT ![t].store_result = r, ![t].pc = "ldxr"]
              /\ UNCHANGED counter
  /\ UNCHANGED <<NUM_THREADS, ITERATIONS, fetched, counterPtr, mainPc, mainI, thread_args, out, exitStatus>>

NextCounter ==
  \/ Alloc /\ UNCHANGED queueVars
  \/ \E s \in Scenarios : CreateThread(s) /\ UNCHANGED queueVars
  \/ \E s \in Scenarios : JoinThread(s) /\ UNCHANGED queueVars
  \/ \E s \in Scenarios : Report(s) /\ UNCHANGED queueVars
  \/ \E t \in Workers : ThreadStart(t) /\ UNCHANGED queueVars
  \/ \E t \in Workers : FetchAdd(t) /\ UNCHANGED queueVars
  \/ \E t \in Workers : Ldxr(t) /\ UNCHANGED queueVars
  \/ \E t \in Workers : Stxr(t) /\ UNCHANGED queueVars

\* The counter benchmark from its first line.
InitCounter ==
  /\ InitCounterVars
  /\ nProducers = 0 /\ nConsumers = 0 /\ ITEMS_PER_PRODUCER = 1 /\ QUEUE_SIZE = 2
  /\ qMainPc = "idle" /\ qMainI = 0 /\ qMainJ = 0
  /\ queue = [buffer |-> "null", head |-> 0, tail |-> 0, size |-> 0]
  /\ bufferMem = <<>> /\ freshSlots = {}
  /\ total = 0 /\ expected_total = 0
  /\ prod = <<>> /\ cons = <<>> /\ producer_args = <<>> /\ consumer_args = <<>>
  /\ enqueued = <<>> /\ dequeued = <<>> /\ qOut = <<>> /\ qExit = "none"

SpecCounter == InitCounter /\ [][NextCounter]_vars

\* The steps of main, of one worker, and the store-exclusive that commits.
MainStep ==
  /\ \/ Alloc
     \/ \E s \in Scenarios : CreateThread(s) \/ JoinThread(s) \/ Report(s)
  /\ UNCHANGED queueVars

WorkerStep(t) ==
  /\ t \in Workers
  /\ ThreadStart(t) \/ FetchAdd(t) \/ Ldxr(t) \/ Stxr(t)
  /\ UNCHANGED queueVars

StxrCommit(t) ==
  /\ t \in Workers
  /\ Stxr(t)
  /\ thr'[t].store_result = 0
  /\ counter' # counter
  /\ UNCHANGED queueVars

\* Fair scheduling: main and every created thread keep being run (lines 103-114,
\* 128-139: each is an OS thread of its own), and a store-exclusive that is tried
\* again and again with its monitor still set does not fail every time.
FairSpecCounter ==
  /\ SpecCounter
  /\ WF_vars(MainStep)
  /\ \A t \in Scenarios \X (0 .. MaxThreads - 1) : WF_vars(WorkerStep(t))
  /\ \A id \in 0 .. MaxThreads - 1 : SF_vars(StxrCommit(<<"ldstex", id>>))

(***************************************************************************)
(*                  the lock-free queue benchmark                          *)
(***************************************************************************)
Producers == 0 .. nProducers - 1
Consumers == 0 .. nConsumers - 1

NoQArg == [thread_id |-> 0, num_items |-> 0]
UnbornProducer == [pc |-> "unborn", i |-> 0, item |-> 0, tail |-> 0, next_tail |-> 0]
UnbornConsumer == [pc |-> "unborn", i |-> 0, item |-> 0, head |-> 0, src |-> "none"]

\* (index + 1) % size, lines 39 and 61.
NextIndex(index, size) == (index + 1) % size

\* A mutant: a queue that never reports full.
NeverFull(next_tail, head) == FALSE

\* A mutant: a fullness test that compares the slot after next_tail with head.
IsFullShifted(next_tail, head) == next_tail + 1 = head

\* line 41: the queue is full.
IsFull(next_tail, head) == next_tail = head

\* A mutant: a queue that never reports empty.
NeverEmpty(head, tail) == FALSE

\* line 55: the queue is empty.
IsEmpty(head, tail) == head = tail

\* A mutant: the items of a producer start at its thread_id, not at its share.
ItemWithoutStride(thread_id, num_items, i) == WrapInt32(thread_id + i + 1)

\* line 80: the i-th item of a producer.
ItemOf(thread_id, num_items, i) == WrapInt32(WrapInt32(thread_id * num_items) + i + 1)

\* line 139: items_per_consumer.
ItemsPerConsumer == WrapInt32(ITEMS_PER_PRODUCER * nProducers) \div nConsumers

\* lines 187-192: the two loops that add up expected_total, from (i, j, acc).
RECURSIVE ExpectedLoop(_, _, _)
ExpectedLoop(i, j, acc) ==
  IF i >= nProducers THEN acc
  ELSE IF j >= ITEMS_PER_PRODUCER THEN ExpectedLoop(i + 1, 0, acc)
  ELSE ExpectedLoop(i, j + 1, WrapInt32(acc + i * ITEMS_PER_PRODUCER + j + 1))

\* What reading buffer[k] may give: the int last stored there, or, for a slot never
\* stored to, whatever the malloc'ed block holds.
SlotValues(k) == IF k \in DOMAIN bufferMem THEN {bufferMem[k]} ELSE Garbage

\* The run is on: main has not returned and no thread has faulted.
Running == qExit = "none"

\* The state before main's first line, for P producers, Q consumers, and the
\* constants ITEMS_PER_PRODUCER in 1..maxItems, QUEUE_SIZE in 2..maxSize.
QueueStart(P, Q, maxItems, maxSize) ==
  /\ nProducers = P
  /\ nConsumers = Q
  /\ ITEMS_PER_PRODUCER \in 1 .. maxItems
  /\ QUEUE_SIZE \in 2 .. maxSize
  /\ qMainPc = "init"
  /\ qMainI = 0
  /\ qMainJ = 0
  /\ queue = [buffer |-> "null", head |-> 0, tail |-> 0, size |-> 0]
  /\ bufferMem = <<>>
  /\ freshSlots = {}
  /\ total = 0
  /\ expected_total = 0
  /\ prod = [p \in 0 .. P - 1 |-> UnbornProducer]
  /\ cons = [c \in 0 .. Q - 1 |-> UnbornConsumer]
  /\ producer_args = [p \in 0 .. P - 1 |-> NoQArg]
  /\ consumer_args = [c \in 0 .. Q - 1 |-> NoQArg]
  /\ enqueued = [p \in 0 .. P - 1 |-> <<>>]
  /\ dequeued = [c \in 0 .. Q - 1 |-> <<>>]
  /\ qOut = <<>>
  /\ qExit = "none"

\* The counter benchmark is not part of a queue run.
CounterIdle ==
  /\ NUM_THREADS = 1 /\ ITERATIONS = 1 /\ mainPc = "idle" /\ mainI = 0
  /\ counterPtr = [s \in Scenarios |-> "unset"]
  /\ fetched = {}
  /\ counter = [s \in Scenarios |-> 0]
  /\ thread_args = [t \in Workers |-> NoArg]
  /\ thr = [t \in Workers |-> Unborn]
  /\ monitor = [t \in Workers |-> "none"]
  /\ out = <<>> /\ exitStatus = "none"

\* lines 126-144: queue_init (whose malloc may return NULL), total, items_per_consumer.
QueueInit ==
  /\ Running
  /\ qMainPc = "init"
  /\ \E ptr \in {"null", "block"} :
       queue' = [buffer |-> ptr, head |-> 0, tail |-> 0, size |-> QUEUE_SIZE]
  /\ total' = 0
  /\ qMainPc' = "create_consumers"
  /\ qMainI' = 0
  /\ UNCHANGED <<nProducers, nConsumers, ITEMS_PER_PRODUCER, QUEUE_SIZE, qMainJ, bufferMem,
                 freshSlots, expected_total, prod, cons, producer_args, consumer_args,
                 enqueued, dequeued, qOut, qExit>>

\* lines 149-156: one turn of the loop that starts the consumers.
CreateConsumer ==
  /\ Running
  /\ qMainPc = "create_consumers"
  /\ qMainI < nConsumers
  /\ consumer_args' = [consumer_args EXCEPT ![qMainI] =
        [thread_id |-> qMainI, num_items |-> ItemsPerConsumer]]
  /\ cons' = [cons EXCEPT ![qMainI].pc = "start"]
  /\ qMainI' = IF qMainI + 1 < nConsumers THEN qMainI + 1 ELSE 0
  /\ qMainPc' = IF qMainI + 1 < nConsumers THEN qMainPc ELSE "create_producers"
  /\ UNCHANGED <<nProducers, nConsumers, ITEMS_PER_PRODUCER, QUEUE_SIZE, qMainJ, queue,
                 bufferMem, freshSlots, total, expected_total, prod, producer_args,
                 enqueued, dequeued, qOut, qExit>>

\* lines 159-166: one turn of the loop that starts the producers.
CreateProducer ==
  /\ Running
  /\ qMainPc = "create_producers"
  /\ qMainI < nProducers
  /\ producer_args' = [producer_args EXCEPT ![qMainI] =
        [thread_id |-> qMainI, num_items |-> ITEMS_PER_PRODUCER]]
  /\ prod' = [prod EXCEPT ![qMainI].pc = "start"]
  /\ qMainI' = IF qMainI + 1 < nProducers THEN qMainI + 1 ELSE 0
  /\ qMainPc' = IF qMainI + 1 < nProducers THEN qMainPc ELSE "join_producers"
  /\ UNCHANGED <<nProducers, nConsumers, ITEMS_PER_PRODUCER, QUEUE_SIZE, qMainJ, queue,
                 bufferMem, freshSlots, total, expected_total, cons, consumer_args,
                 enqueued, dequeued, qOut, qExit>>

\* lines 169-171: one pthread_join of a producer.
JoinProducer ==
  /\ Running
  /\ qMainPc = "join_producers"
  /\ qMainI < nProducers
  /\ prod[qMainI].pc = "done"
  /\ qMainI' = IF qMainI + 1 < nProducers THEN qMainI + 1 ELSE 0
  /\ qMainPc' = IF qMainI + 1 < nProducers THEN qMainPc ELSE "join_consumers"
  /\ UNCHANGED <<nProducers, nConsumers, ITEMS_PER_PRODUCER, QUEUE_SIZE, qMainJ, queue,
                 bufferMem, freshSlots, total, expected_total, prod, cons,
                 producer_args, consumer_args, enqueued, dequeued, qOut, qExit>>

\* lines 174-176: one pthread_join of a consumer.
JoinConsumer ==
  /\ Running
  /\ qMainPc = "join_consumers"
  /\ qMainI < nConsumers
  /\ cons[qMainI].pc = "done"
  /\ qMainI' = IF qMainI + 1 < nConsumers THEN qMainI + 1 ELSE 0
  /\ qMainPc' = IF qMainI + 1 < nConsumers THEN qMainPc ELSE "print_total"
  /\ UNCHANGED <<nProducers, nConsumers, ITEMS_PER_PRODUCER, QUEUE_SIZE, qMainJ, queue,
                 bufferMem, freshSlots, total, expected_total, prod, cons,
                 producer_args, consumer_args, enqueued, dequeued, qOut, qExit>>

\* lines 178-184: the report, which reads total.
PrintTotal ==
  /\ Running
  /\ qMainPc = "print_total"
  /\ qOut' = Append(qOut, [line |-> "Final total", value |-> total])
  /\ qMainPc' = "expected"
  /\ UNCHANGED <<nProducers, nConsumers, ITEMS_PER_PRODUCER, QUEUE_SIZE, qMainJ, qMainI, queue,
                 bufferMem, freshSlots, total, expected_total, prod, cons,
                 producer_args, consumer_args, enqueued, dequeued, qExit>>

\* A mutant: the second line repeats the observed total.
PrintTotalTwice ==
  /\ Running
  /\ qMainPc = "expected"
  /\ expected_total' = ExpectedLoop(0, 0, 0)
  /\ qOut' = Append(qOut, [line |-> "Expected total", value |-> total])
  /\ qMainPc' = "returned"
  /\ qExit' = "0"
  /\ UNCHANGED <<nProducers, nConsumers, ITEMS_PER_PRODUCER, QUEUE_SIZE, qMainJ, qMainI, queue,
                 bufferMem, freshSlots, total, prod, cons, producer_args,
                 consumer_args, enqueued, dequeued>>

\* A mutant: main returns 1 when the totals differ.
ExitOnMismatch ==
  /\ Running
  /\ qMainPc = "expected"
  /\ expected_total' = ExpectedLoop(0, 0, 0)
  /\ qOut' = Append(qOut, [line |-> "Expected total", value |-> expected_total'])
  /\ qMainPc' = "returned"
  /\ qExit' = IF total = expected_total' THEN "0" ELSE "1"
  /\ UNCHANGED <<nProducers, nConsumers, ITEMS_PER_PRODUCER, QUEUE_SIZE, qMainJ, qMainI, queue,
                 bufferMem, freshSlots, total, prod, cons, producer_args,
                 consumer_args, enqueued, dequeued>>

\* lines 186-197: expected_total, its report, free, return 0.
PrintExpected ==
  /\ Running
  /\ qMainPc = "expected"
  /\ expected_total' = ExpectedLoop(0, 0, 0)
  /\ qOut' = Append(qOut, [line |-> "Expected total", value |-> expected_total'])
  /\ qMainPc' = "returned"
  /\ qExit' = "0"
  /\ UNCHANGED <<nProducers, nConsumers, ITEMS_PER_PRODUCER, QUEUE_SIZE, qMainJ, qMainI, queue,
                 bufferMem, freshSlots, total, prod, cons, producer_args,
                 consumer_args, enqueued, dequeued>>

\* The position of a thread whose loop index is i: the for loops of lines 79, 97.
QLoopPc(i, num_items, first) == IF i < num_items THEN first ELSE "done"

\* lines 75-80: the producer's locals, the first loop test, its first item.
ProducerStart(p) ==
  /\ Running
  /\ prod[p].pc = "start"
  /\ prod' = [prod EXCEPT
        ![p].i = 0,
        ![p].item = ItemOf(producer_args[p].thread_id, producer_args[p].num_items, 0),
        ![p].pc = QLoopPc(0, producer_args[p].num_items, "enq_load_tail")]
  /\ UNCHANGED <<nProducers, nConsumers, ITEMS_PER_PRODUCER, QUEUE_SIZE, qMainJ, qMainPc,
                 qMainI, queue, bufferMem, freshSlots, total, expected_total, cons,
                 producer_args, consumer_args, enqueued, dequeued, qOut, qExit>>

\* lines 38-39 of queue_enqueue: tail = atomic_load(&queue->tail), next_tail.
EnqLoadTail(p) ==
  /\ Running
  /\ prod[p].pc = "enq_load_tail"
  /\ prod' = [prod EXCEPT ![p].tail = queue.tail,
                          ![p].next_tail = NextIndex(queue.tail, queue.size),
                          ![p].pc = "enq_check"]
  /\ UNCHANGED <<nProducers, nConsumers, ITEMS_PER_PRODUCER, QUEUE_SIZE, qMainJ, qMainPc,
                 qMainI, queue, bufferMem, freshSlots, total, expected_total, cons,
                 producer_args, consumer_args, enqueued, dequeued, qOut, qExit>>

\* A mutant: an enqueue that waits inside the call while the queue is full.
EnqCheckWaits(p) ==
  /\ Running
  /\ prod[p].pc = "enq_check"
  /\ prod' = [prod EXCEPT ![p].pc = IF IsFull(prod[p].next_tail, queue.head)
                                    THEN "enq_load_tail" ELSE "enq_write"]
  /\ UNCHANGED <<nProducers, nConsumers, ITEMS_PER_PRODUCER, QUEUE_SIZE, qMainJ, qMainPc,
                 qMainI, queue, bufferMem, freshSlots, total, expected_total, cons,
                 producer_args, consumer_args, enqueued, dequeued, qOut, qExit>>

\* lines 41-44: the load of head; return 0 when full, into the caller's retry loop.
EnqCheck(p) ==
  /\ Running
  /\ prod[p].pc = "enq_check"
  /\ prod' = [prod EXCEPT ![p].pc = IF IsFull(prod[p].next_tail, queue.head)
                                    THEN "yield" ELSE "enq_write"]
  /\ UNCHANGED <<nProducers, nConsumers, ITEMS_PER_PRODUCER, QUEUE_SIZE, qMainJ, qMainPc,
                 qMainI, queue, bufferMem, freshSlots, total, expected_total, cons,
                 producer_args, consumer_args, enqueued, dequeued, qOut, qExit>>

\* line 46: queue->buffer[tail] = item; a store through a NULL buffer faults.
EnqWrite(p) ==
  /\ Running
  /\ prod[p].pc = "enq_write"
  /\ IF queue.buffer = "null"
     THEN /\ qExit' = "crash"
          /\ UNCHANGED <<bufferMem, freshSlots, prod>>
     ELSE /\ bufferMem' = [k \in DOMAIN bufferMem \cup {prod[p].tail} |->
                             IF k = prod[p].tail THEN prod[p].item ELSE bufferMem[k]]
          /\ freshSlots' = freshSlots \cup {prod[p].tail}
          /\ prod' = [prod EXCEPT ![p].pc = "enq_store"]
          /\ UNCHANGED qExit
  /\ UNCHANGED <<nProducers, nConsumers, ITEMS_PER_PRODUCER, QUEUE_SIZE, qMainJ, qMainPc,
                 qMainI, queue, total, expected_total, cons, producer_args,
                 consumer_args, enqueued, dequeued, qOut>>

\* lines 47-48: atomic_store(&queue->tail, next_tail), return 1; then the caller's
\* i++, loop test and next item (lines 79-80).
EnqStore(p) ==
  /\ Running
  /\ prod[p].pc = "enq_store"
  /\ queue' = [queue EXCEPT !.tail = prod[p].next_tail]
  /\ enqueued' = [enqueued EXCEPT ![p] = Append(enqueued[p], prod[p].item)]
  /\ prod' = [prod EXCEPT
        ![p].i = prod[p].i + 1,
        ![p].item = IF prod[p].i + 1 < producer_args[p].num_items
                    THEN ItemOf(producer_args[p].thread_id, producer_args[p].num_items,
                                prod[p].i + 1)
                    ELSE prod[p].item,
        ![p].pc = QLoopPc(prod[p].i + 1, producer_args[p].num_items, "enq_load_tail")]
  /\ UNCHANGED <<nProducers, nConsumers, ITEMS_PER_PRODUCER, QUEUE_SIZE, qMainJ, qMainPc,
                 qMainI, bufferMem, freshSlots, total, expected_total, cons,
                 producer_args, consumer_args, dequeued, qOut, qExit>>

\* A mutant: a producer that goes on to its next item after a failed enqueue.
ProducerGivesUp(p) ==
  /\ Running
  /\ prod[p].pc = "yield"
  /\ prod' = [prod EXCEPT
        ![p].i = prod[p].i + 1,
        ![p].pc = QLoopPc(prod[p].i + 1, producer_args[p].num_items, "enq_load_tail")]
  /\ UNCHANGED <<nProducers, nConsumers, ITEMS_PER_PRODUCER, QUEUE_SIZE, qMainJ, qMainPc,
                 qMainI, queue, bufferMem, freshSlots, total, expected_total, cons,
                 producer_args, consumer_args, enqueued, dequeued, qOut, qExit>>

\* lines 81-84: the enqueue failed; pthread_yield(), then the next attempt.
ProducerYield(p) ==
  /\ Running
  /\ prod[p].pc = "yield"
  /\ prod' = [prod EXCEPT ![p].pc = "enq_load_tail"]
  /\ UNCHANGED <<nProducers, nConsumers, ITEMS_PER_PRODUCER, QUEUE_SIZE, qMainJ, qMainPc,
                 qMainI, queue, bufferMem, freshSlots, total, expected_total, cons,
                 producer_args, consumer_args, enqueued, dequeued, qOut, qExit>>

\* lines 92-97: the consumer's locals and the first loop test.
ConsumerStart(c) ==
  /\ Running
  /\ cons[c].pc = "start"
  /\ cons' = [cons EXCEPT
        ![c].i = 0,
        ![c].pc = QLoopPc(0, consumer_args[c].num_items, "deq_load_head")]
  /\ UNCHANGED <<nProducers, nConsumers, ITEMS_PER_PRODUCER, QUEUE_SIZE, qMainJ, qMainPc,
                 qMainI, queue, bufferMem, freshSlots, total, expected_total, prod,
                 producer_args, consumer_args, enqueued, dequeued, qOut, qExit>>

\* line 53 of queue_dequeue: head = atomic_load(&queue->head).
DeqLoadHead(c) ==
  /\ Running
  /\ cons[c].pc = "deq_load_head"
  /\ cons' = [cons EXCEPT ![c].head = queue.head, ![c].pc = "deq_check"]
  /\ UNCHANGED <<nProducers, nConsumers, ITEMS_PER_PRODUCER, QUEUE_SIZE, qMainJ, qMainPc,
                 qMainI, queue, bufferMem, freshSlots, total, expected_total, prod,
                 producer_args, consumer_args, enqueued, dequeued, qOut, qExit>>

\* lines 55-58: the load of tail; return 0 when empty, into the caller's retry loop.
DeqCheck(c) ==
  /\ Running
  /\ cons[c].pc = "deq_check"
  /\ cons' = [cons EXCEPT ![c].pc = IF IsEmpty(cons[c].head, queue.tail)
                                    THEN "yield" ELSE "deq_read"]
  /\ UNCHANGED <<nProducers, nConsumers, ITEMS_PER_PRODUCER, QUEUE_SIZE, qMainJ, qMainPc,
                 qMainI, queue, bufferMem, freshSlots, total, expected_total, prod,
                 producer_args, consumer_args, enqueued, dequeued, qOut, qExit>>

\* line 60: *item = queue->buffer[head]. src records what the slot held: a value
\* stored and not yet read ("fresh"), one read before ("stale"), or nothing stored.
DeqRead(c) ==
  /\ Running
  /\ cons[c].pc = "deq_read"
  /\ \E v \in SlotValues(cons[c].head) :
       cons' = [cons EXCEPT
          ![c].item = v,
          ![c].src = IF cons[c].head \notin DOMAIN bufferMem THEN "unwritten"
                     ELSE IF cons[c].head \in freshSlots THEN "fresh" ELSE "stale",
          ![c].pc = "deq_store"]
  /\ freshSlots' = freshSlots \ {cons[c].head}
  /\ UNCHANGED <<nProducers, nConsumers, ITEMS_PER_PRODUCER, QUEUE_SIZE, qMainJ, qMainPc,
                 qMainI, queue, bufferMem, total, expected_total, prod,
                 producer_args, consumer_args, enqueued, dequeued, qOut, qExit>>

\* lines 61-62: atomic_store(&queue->head, (head + 1) % size), return 1.
DeqStore(c) ==
  /\ Running
  /\ cons[c].pc = "deq_store"
  /\ queue' = [queue EXCEPT !.head = NextIndex(cons[c].head, queue.size)]
  /\ dequeued' = [dequeued EXCEPT ![c] = Append(dequeued[c], cons[c].item)]
  /\ cons' = [cons EXCEPT ![c].pc = "add"]
  /\ UNCHANGED <<nProducers, nConsumers, ITEMS_PER_PRODUCER, QUEUE_SIZE, qMainJ, qMainPc,
                 qMainI, bufferMem, freshSlots, total, expected_total, prod,
                 producer_args, consumer_args, enqueued, qOut, qExit>>

\* line 103: atomic_fetch_add(total, item); then i++ and the loop test (line 97).
ConsumerAdd(c) ==
  /\ Running
  /\ cons[c].pc = "add"
  /\ total' = WrapInt32(total + cons[c].item)
  /\ cons' = [cons EXCEPT
        ![c].i = cons[c].i + 1,
        ![c].pc = QLoopPc(cons[c].i + 1, consumer_args[c].num_items, "deq_load_head")]
  /\ UNCHANGED <<nProducers, nConsumers, ITEMS_PER_PRODUCER, QUEUE_SIZE, qMainJ, qMainPc,
                 qMainI, queue, bufferMem, freshSlots, expected_total, prod,
                 producer_args, consumer_args, enqueued, dequeued, qOut, qExit>>

\* lines 99-102: the dequeue failed; pthread_yield(), then the next attempt.
ConsumerYield(c) ==
  /\ Running
  /\ cons[c].pc = "yield"
  /\ cons' = [cons EXCEPT ![c].pc = "deq_load_head"]
  /\ UNCHANGED <<nProducers, nConsumers, ITEMS_PER_PRODUCER, QUEUE_SIZE, qMainJ, qMainPc,
                 qMainI, queue, bufferMem, freshSlots, total, expected_total, prod,
                 producer_args, consumer_args, enqueued, dequeued, qOut, qExit>>

NextQueue ==
  \/ QueueInit /\ UNCHANGED counterVars
  \/ CreateConsumer /\ UNCHANGED counterVars
  \/ CreateProducer /\ UNCHANGED counterVars
  \/ JoinProducer /\ UNCHANGED counterVars
  \/ JoinConsumer /\ UNCHANGED counterVars
  \/ PrintTotal /\ UNCHANGED counterVars
  \/ PrintExpected /\ UNCHANGED counterVars
  \/ \E p \in Producers : ProducerStart(p) /\ UNCHANGED counterVars
  \/ \E p \in Producers : EnqLoadTail(p) /\ UNCHANGED counterVars
  \/ \E p \in Producers : EnqCheck(p) /\ UNCHANGED counterVars
  \/ \E p \in Producers : EnqWrite(p) /\ UNCHANGED counterVars
  \/ \E p \in Producers : EnqStore(p) /\ UNCHANGED counterVars
  \/ \E p \in Producers : ProducerYield(p) /\ UNCHANGED counterVars
  \/ \E c \in Consumers : ConsumerStart(c) /\ UNCHANGED counterVars
  \/ \E c \in Consumers : DeqLoadHead(c) /\ UNCHANGED counterVars
  \/ \E c \in Consumers : DeqCheck(c) /\ UNCHANGED counterVars
  \/ \E c \in Consumers : DeqRead(c) /\ UNCHANGED counterVars
  \/ \E c \in Consumers : DeqStore(c) /\ UNCHANGED counterVars
  \/ \E c \in Consumers : ConsumerAdd(c) /\ UNCHANGED counterVars
  \/ \E c \in Consumers : ConsumerYield(c) /\ UNCHANGED counterVars

\* The benchmark as compiled: NUM_PRODUCERS producers, NUM_CONSUMERS consumers.
InitQueue == CounterIdle /\ QueueStart(NUM_PRODUCERS, NUM_CONSUMERS, MaxItems, MaxSize)

SpecQueue == InitQueue /\ [][NextQueue]_vars

\* The same code run with one producer and one consumer.
InitSPSC == CounterIdle /\ QueueStart(1, 1, SpscItems, SpscSize)

SpecSPSC == InitSPSC /\ [][NextQueue]_vars

\* The same code run with NUM_PRODUCERS producers feeding one consumer, each
\* producer with up to MaxItems + 1 items.
InitFanIn == CounterIdle /\ QueueStart(NUM_PRODUCERS, 1, MaxItems + 1, MaxSize)

SpecFanIn == InitFanIn /\ [][NextQueue]_vars

\* The same code run with one producer feeding NUM_CONSUMERS consumers, the
\* producer with up to MaxItems + 1 items.
InitFanOut == CounterIdle /\ QueueStart(1, NUM_CONSUMERS, MaxItems + 1, MaxSize)

SpecFanOut == InitFanOut /\ [][NextQueue]_vars

\* lines 188-191 taken one turn at a time: expected_total += i * M + j + 1. The
\* addition is an int addition (where it overflows the build's add wraps).
ExpectedAdd ==
  /\ Running
  /\ qMainPc = "expected_loop"
  /\ qMainI < nProducers
  /\ qMainJ < ITEMS_PER_PRODUCER
  /\ expected_total' = AddInt32(expected_total, qMainI * ITEMS_PER_PRODUCER + qMainJ + 1)
  /\ qMainJ' = qMainJ + 1
  /\ UNCHANGED <<nProducers, nConsumers, ITEMS_PER_PRODUCER, QUEUE_SIZE, qMainPc, qMainI,
                 queue, bufferMem, freshSlots, total, prod, cons, producer_args,
                 consumer_args, enqueued, dequeued, qOut, qExit>>

\* lines 188-189: the inner loop is over; i++ and j = 0.
ExpectedNextProducer ==
  /\ Running
  /\ qMainPc = "expected_loop"
  /\ qMainI < nProducers
  /\ qMainJ >= ITEMS_PER_PRODUCER
  /\ qMainI' = qMainI + 1
  /\ qMainJ' = 0
  /\ UNCHANGED <<nProducers, nConsumers, ITEMS_PER_PRODUCER, QUEUE_SIZE, qMainPc, queue,
                 bufferMem, freshSlots, total, expected_total, prod, cons, producer_args,
                 consumer_args, enqueued, dequeued, qOut, qExit>>

\* lines 193-197: the outer loop is over; the report of expected_total, return 0.
ExpectedPrint ==
  /\ Running
  /\ qMainPc = "expected_loop"
  /\ qMainI >= nProducers
  /\ qOut' = Append(qOut, [line |-> "Expected total", value |-> expected_total])
  /\ qMainPc' = "returned"
  /\ qExit' = "0"
  /\ UNCHANGED <<nProducers, nConsumers, ITEMS_PER_PRODUCER, QUEUE_SIZE, qMainI, qMainJ,
                 queue, bufferMem, freshSlots, total, expected_total, prod, cons,
                 producer_args, consumer_args, enqueued, dequeued>>

NextTotals ==
  \/ ExpectedAdd /\ UNCHANGED counterVars
  \/ ExpectedNextProducer /\ UNCHANGED counterVars
  \/ ExpectedPrint /\ UNCHANGED counterVars

\* main of the program as compiled, at line 186: the threads are joined and the
\* loops that add up expected_total begin. They read the constants only, so what
\* the threads did is left out of this state.
InitTotals ==
  /\ CounterIdle
  /\ nProducers = NUM_PRODUCERS
  /\ nConsumers = NUM_CONSUMERS
  /\ ITEMS_PER_PRODUCER = ITEMS_PER_PRODUCER_COMPILED
  /\ QUEUE_SIZE = QUEUE_SIZE_COMPILED
  /\ qMainPc = "expected_loop"
  /\ qMainI = 0
  /\ qMainJ = 0
  /\ queue = [buffer |-> "block", head |-> 0, tail |-> 0, size |-> QUEUE_SIZE_COMPILED]
  /\ bufferMem = <<>>
  /\ freshSlots = {}
  /\ total = 0
  /\ expected_total = 0
  /\ prod = [p \in 0 .. NUM_PRODUCERS - 1 |-> [UnbornProducer EXCEPT !.pc = "done"]]
  /\ cons = [c \in 0 .. NUM_CONSUMERS - 1 |-> [UnbornConsumer EXCEPT !.pc = "done"]]
  /\ producer_args = [p \in 0 .. NUM_PRODUCERS - 1 |-> NoQArg]
  /\ consumer_args = [c \in 0 .. NUM_CONSUMERS - 1 |-> NoQArg]
  /\ enqueued = [p \in 0 .. NUM_PRODUCERS - 1 |-> <<>>]
  /\ dequeued = [c \in 0 .. NUM_CONSUMERS - 1 |-> <<>>]
  /\ qOut = <<>>
  /\ qExit = "none"

SpecTotals == InitTotals /\ [][NextTotals]_vars

\* Both programs, as benchmark.sh runs them: each a process of its own.
InitSuite == InitCounter \/ InitQueue

NextSuite == NextCounter \/ NextQueue

SpecSuite == InitSuite /\ [][NextSuite]_vars

(***************************************************************************)
(*                            Properties                                   *)
(***************************************************************************)

\* Every worker of scenario s has returned.
AllFinished(s) == \A i \in 0 .. NUM_THREADS - 1 : thr[<<s, i>>].pc = "done"

\* Every producer and every consumer has returned.
AllQueueThreadsDone ==
  /\ \A p \in Producers : prod[p].pc = "done"
  /\ \A c \in Consumers : cons[c].pc = "done"

\* How often value v occurs in the per-thread histories h.
Occurrences(h, v) ==
  Cardinality({tk \in UNION {{<<t, k>> : k \in 1 .. Len(h[t])} : t \in DOMAIN h} :
                 h[tk[1]][tk[2]] = v})

\* The values that occur in the per-thread histories h.
ValuesOf(h) == UNION {{h[t][k] : k \in 1 .. Len(h[t])} : t \in DOMAIN h}

\* The number of entries of the per-thread histories h.
CountOf(h) == Cardinality(UNION {{<<t, k>> : k \in 1 .. Len(h[t])} : t \in DOMAIN h})

\* Successful enqueues minus successful dequeues.
Resident == CountOf(enqueued) - CountOf(dequeued)

\* C1: once all workers of a scenario (the ldxr/stxr loop, or atomic_fetch_add) have
\* finished, the scenario's counter is exactly T * I, T the number of threads and I
\* the iterations each was given, whatever the interleaving.
C1_CounterIsThreadsTimesIterations ==
  \A s \in Scenarios :
    AllFinished(s) => counter[s] = NUM_THREADS * thread_args[<<s, 0>>].num_iterations

\* C1 witness: two threads of two iterations each have run both scenarios to the end.
C1_Witness ==
  /\ NUM_THREADS = 2 /\ ITERATIONS = 4
  /\ mainPc = "returned" /\ exitStatus = "0"
  /\ AllFinished("ldstex") /\ AllFinished("lse")
  /\ \A t \in Workers : thr[t].i = 2
  /\ counter = [s \in Scenarios |-> 4]

\* C2: once every producer and consumer has finished, the values returned by the
\* successful dequeues are, as a multiset, the values passed to the successful
\* enqueues: nothing lost, nothing delivered twice.
C2_NoLossNoDuplication ==
  AllQueueThreadsDone =>
    \A v \in ValuesOf(enqueued) \cup ValuesOf(dequeued) :
      Occurrences(dequeued, v) = Occurrences(enqueued, v)

\* C3: a slot is never claimed by two producers or by two consumers at once: no two
\* producers have stored their item into the same slot from the same tail value and
\* not yet published, no two consumers have read the same slot from the same head
\* value and not yet published.
C3_SlotClaimedOnce ==
  /\ \A p1, p2 \in Producers :
       (p1 # p2 /\ prod[p1].pc = "enq_store" /\ prod[p2].pc = "enq_store")
         => prod[p1].tail # prod[p2].tail
  /\ \A c1, c2 \in Consumers :
       (c1 # c2 /\ cons[c1].pc = "deq_store" /\ cons[c2].pc = "deq_store")
         => cons[c1].head # cons[c2].head

\* C4: whatever a dequeue reads from a slot was stored there by an enqueue and not
\* read before: never the content of a slot nobody stored to, never a value of an
\* earlier lap.
C4_ReadsOnlyFreshWrites ==
  \A c \in Consumers : cons[c].src \in {"none", "fresh"}

\* C5: after all joins the consumers' total is the expected total main computes.
C5_TotalIsExpected ==
  (qMainPc = "returned" /\ qExit = "0") => total = expected_total

\* C6: with one producer and one consumer the dequeues return the producer's items
\* 1, 2, 3, ... in this order, all of them once the consumer is done.
C6_Fifo ==
  /\ \A k \in 1 .. Len(dequeued[0]) : dequeued[0][k] = k
  /\ cons[0].pc = "done" => Len(dequeued[0]) = ITEMS_PER_PRODUCER

\* C6 witness: capacity 4, items 1..5, all received in order.
C6_Witness ==
  /\ nProducers = 1 /\ nConsumers = 1
  /\ QUEUE_SIZE = 4 /\ ITEMS_PER_PRODUCER = 5
  /\ cons[0].pc = "done"
  /\ dequeued[0] = <<1, 2, 3, 4, 5>>

\* C7: the number of resident items (successful enqueues minus successful dequeues)
\* is at least 0 and at most C - 1.
C7_ResidentWithinCapacity == Resident \in 0 .. QUEUE_SIZE - 1

\* C8: an enqueue whose fullness test finds C - 1 items resident returns 0, and one
\* that finds fewer (as after a dequeue from a full queue) returns 1.
C8_Boundary ==
  [][\A p \in Producers :
       (prod[p].pc = "enq_check" /\ prod'[p] # prod[p])
         => ((prod'[p].pc = "yield") <=> (Resident = QUEUE_SIZE - 1))]_vars

\* C9: an enqueue that finds (tail + 1) mod C equal to head returns 0 at once and
\* leaves buffer, head and tail as they are.
C9_FullEnqueueChangesNothing ==
  [][\A p \in Producers :
       (prod[p].pc = "enq_check" /\ prod[p].next_tail = queue.head /\ prod'[p] # prod[p])
         => (/\ prod'[p].pc = "yield"
             /\ queue' = queue
             /\ bufferMem' = bufferMem)]_vars

\* C9 witness: a producer has just been refused by a queue holding an item.
C9_Witness ==
  \E p \in Producers :
    /\ prod[p].pc = "yield"
    /\ prod[p].next_tail = queue.head
    /\ Resident > 0

\* C10: a dequeue that finds head equal to tail returns 0 at once and leaves head,
\* tail, the buffer and the caller's item as they are.
C10_EmptyDequeueChangesNothing ==
  [][\A c \in Consumers :
       (cons[c].pc = "deq_check" /\ cons[c].head = queue.tail /\ cons'[c] # cons[c])
         => (/\ cons'[c].pc = "yield"
             /\ cons'[c].item = cons[c].item
             /\ queue' = queue
             /\ bufferMem' = bufferMem)]_vars

\* C10 witness: a consumer has just been refused by an empty queue.
C10_Witness ==
  \E c \in Consumers :
    /\ cons[c].pc = "yield"
    /\ cons[c].head = queue.tail
    /\ Resident = 0

\* The slots from head up to, not including, tail, modulo the size.
RangeSlots ==
  {(queue.head + d) % queue.size :
     d \in 0 .. ((queue.tail - queue.head + queue.size) % queue.size) - 1}

\* C11: the values enqueued and not yet dequeued are exactly the contents of the
\* slots [head, tail) modulo C: each such slot has been stored to, and every value
\* is there as often as it was enqueued and not dequeued.
C11_ValidElementsInRange ==
  queue.size > 0 =>
    /\ RangeSlots \subseteq DOMAIN bufferMem
    /\ \A v \in ValuesOf(enqueued) \cup ValuesOf(dequeued)
                  \cup {bufferMem[k] : k \in RangeSlots \cap DOMAIN bufferMem} :
         Occurrences(enqueued, v) - Occurrences(dequeued, v)
           = Cardinality({k \in RangeSlots \cap DOMAIN bufferMem : bufferMem[k] = v})

\* C12: a store-exclusive commits old_val + 1 only if no other thread has written
\* the counter since this thread's load-exclusive; if one has (the counter, which
\* only grows, is no longer old_val), the store leaves the counter as it is and
\* reports failure.
C12_StoreExclusiveOnlyIfUnwritten ==
  [][\A t \in Workers :
       (thr[t].pc = "stxr" /\ thr'[t] # thr[t]) =>
         LET c == thread_args[t].counter IN
           IF counter[c] # thr[t].old_val
           THEN counter' = counter /\ thr'[t].store_result # 0
           ELSE \/ counter' = counter
                \/ counter' = [counter EXCEPT ![c] = thr[t].old_val + 1]]_vars

\* C12 witness: a store-exclusive has failed after another thread's write.
C12_Witness ==
  \E t \in Workers :
    /\ thr[t].pc = "ldxr"
    /\ thr[t].store_result # 0
    /\ counter[thread_args[t].counter] # thr[t].old_val

\* The loop turns completed by the workers of scenario s, all together.
IterationsDone(s) ==
  Cardinality(UNION {{<<t, k>> : k \in 1 .. thr[t].i} : t \in {w \in Workers : w[1] = s}})

\* C13: the manual loop is left only by a store-exclusive that succeeded: a failed
\* store goes back to the load-exclusive with i as it was, i advances only with a
\* committed store, and the counter, once zeroed, is the number of loop turns
\* completed.
C13_RetryUntilCommitted ==
  [][/\ \A t \in Workers :
          (thr[t].pc = "stxr" /\ thr'[t] # thr[t]) =>
            IF counter' # counter
            THEN thr'[t].i = thr[t].i + 1 /\ thr'[t].store_result = 0
            ELSE thr'[t].i = thr[t].i /\ thr'[t].pc = "ldxr"
     /\ \A t \in Workers :
          (t[1] = "ldstex" /\ thr'[t].i # thr[t].i) =>
            (thr[t].pc = "stxr" /\ counter' # counter)
     /\ (\A s \in Scenarios : counterPtr'[s] = "block") =>
          counter'["ldstex"] = IterationsDone("ldstex")']_vars

\* C13 witness: in its second loop turn a worker retries after a failed store.
C13_Witness ==
  \E t \in Workers :
    /\ thr[t].pc = "stxr"
    /\ thr[t].store_result # 0
    /\ thr[t].i = 1

ConsumersStarved ==
  /\ Running
  /\ queue.size > 0
  /\ \A p \in Producers : prod[p].pc = "done"
  /\ queue.head = queue.tail
  /\ \E c \in Consumers : cons[c].pc # "done"
  /\ \A c \in Consumers :
       \/ cons[c].pc \in {"done", "deq_load_head", "yield"}
       \/ cons[c].pc = "deq_check" /\ cons[c].head = queue.tail

\* Once the consumers are starved they stay so: no step changes head or tail.
StarvedForever == [][ConsumersStarved => ConsumersStarved']_vars

\* C15: the queue benchmark runs to completion; no consumer is left spinning on
\* an empty queue that no producer will fill again.
C15_NoConsumerStarved == ~ConsumersStarved

\* The place of scenario s's report in the counter benchmark's output.
ReportIndex(s) == IF s = "ldstex" THEN 1 ELSE 2

\* main has read and printed the final counter of scenario s.
Reported(s) ==
  /\ Len(out) >= ReportIndex(s)
  /\ out[ReportIndex(s)].line = "Final counter value"

\* C16: the harness reads the final shared state only after every worker of the
\* scenario has been joined, and no worker changes it afterwards: when a counter
\* has been reported (or the consumers' total printed), every worker of that
\* scenario has returned and the shared value is still the value that was read.
C16_ReadAfterAllJoined ==
  /\ \A s \in Scenarios :
       Reported(s) => AllFinished(s) /\ out[ReportIndex(s)].value = counter[s]
  /\ mainPc \in {"report_ldstex", "create_lse"} => AllFinished("ldstex")
  /\ mainPc = "report_lse" => AllFinished("lse")
  /\ qMainPc \in {"print_total", "expected", "returned"} => AllQueueThreadsDone
  /\ qOut # <<>> => AllQueueThreadsDone /\ qOut[1].value = total

\* C16 witness: the first scenario's counter has been read after its several
\* workers were joined, and the second scenario's workers are running.
C16_Witness ==
  /\ Reported("ldstex")
  /\ NUM_THREADS >= 2
  /\ out[1].value >= 2
  /\ \E t \in Workers : t[1] = "lse" /\ thr[t].pc = "fetch_add" /\ thr[t].i >= 1

C18_MismatchKeepsExitZero ==
  /\ qMainPc = "returned" => AllQueueThreadsDone /\ qExit = "0"
  /\ (mainPc = "returned" /\ Reported("lse")) =>
       (\A s \in Scenarios : AllFinished(s)) /\ exitStatus = "0"

\* C18 witness: the queue benchmark has returned 0 although a value was lost.
C18_Witness ==
  /\ qMainPc = "returned"
  /\ qExit = "0"
  /\ AllQueueThreadsDone
  /\ ValuesOf(enqueued) # ValuesOf(dequeued)
  /\ total # ExpectedLoop(0, 0, 0)

\* C19: in the counter benchmark, when either malloc has failed, main has printed
\* the diagnostic and returned 1, no worker thread was created and no scenario run.
C19_CounterAllocFailureIsFatal ==
  (\E s \in Scenarios : counterPtr[s] = "null") =>
     /\ mainPc = "returned"
     /\ exitStatus = "1"
     /\ out = <<[line |-> "malloc", value |-> 0]>>
     /\ \A t \in Workers : thr[t] = Unborn /\ thread_args[t] = NoArg

\* C19 witness: the second malloc alone has failed and main has returned 1.
C19_Witness ==
  /\ counterPtr = [s \in Scenarios |-> IF s = "lse" THEN "null" ELSE "block"]
  /\ exitStatus = "1"
  /\ NUM_THREADS >= 2

\* C20: in the queue benchmark, when the malloc of the buffer has failed, the
\* failure is reported and the process ends there: no producer or consumer is
\* created and no enqueue or dequeue runs on the queue.
C20_QueueAllocFailureIsFatal ==
  (qMainPc # "init" /\ queue.buffer = "null") =>
     /\ qOut # <<>>
     /\ qExit \notin {"none", "0"}
     /\ \A p \in Producers : prod[p].pc = "unborn"
     /\ \A c \in Consumers : cons[c].pc = "unborn"

\* C21: the scenarios run one at a time on state of their own: an LSE worker is
\* created only when every LD/ST-EX worker has returned and been joined, the LSE
\* counter is 0 when the first of them is created, and a step of a worker of one
\* scenario leaves the other scenario's counter as it is.
C21_FreshStatePerScenario ==
  [][/\ \A t \in Workers :
          (t[1] = "lse" /\ thr[t].pc = "unborn" /\ thr'[t].pc # "unborn") =>
            /\ AllFinished("ldstex")
            /\ Reported("ldstex")
            /\ (\A w \in Workers : w[1] = "lse" => thr[w].pc = "unborn")
                 => counter["lse"] = 0
     /\ \A t \in Workers :
          (thr[t].pc # "unborn" /\ thr'[t] # thr[t]) =>
            \A s \in Scenarios \ {t[1]} : counter'[s] = counter[s]]_vars

\* C21 witness: the LSE workers are at work on their counter after the LD/ST-EX
\* scenario has ended with its own.
C21_Witness ==
  /\ NUM_THREADS >= 2
  /\ Reported("ldstex")
  /\ counter["ldstex"] >= 2
  /\ counter["lse"] >= 1
  /\ counter["lse"] < counter["ldstex"]
  /\ \E t \in Workers : t[1] = "lse" /\ thr[t].pc = "fetch_add"

\* The sum 1 + 2 + ... + n.
SumTo(n) == (n * (n + 1)) \div 2

\* C22: producer p passes to the queue, for i = 0 .. M-1 in this order, the value
\* p * M + i + 1; when all producers are done the values passed are the integers
\* 1 .. P * M, each once, and expected_total is the sum of these.
C22_ProducerSequence ==
  LET M == ITEMS_PER_PRODUCER IN
    /\ \A p \in Producers :
         prod[p].pc \notin {"unborn", "start"} =>
           /\ Len(enqueued[p]) = prod[p].i
           /\ \A k \in 1 .. Len(enqueued[p]) : enqueued[p][k] = p * M + (k - 1) + 1
           /\ prod[p].pc # "done" => prod[p].item = p * M + prod[p].i + 1
           /\ prod[p].pc = "done" => prod[p].i = M
    /\ (\A p \in Producers : prod[p].pc = "done") =>
         /\ ValuesOf(enqueued) = 1 .. nProducers * M
         /\ CountOf(enqueued) = nProducers * M
    /\ qMainPc = "returned" => expected_total = SumTo(nProducers * M)

\* C22 witness: two producers of two items each have passed 1, 2 and 3, 4, and
\* main has computed the expected total 10.
C22_Witness ==
  /\ nProducers = 2
  /\ ITEMS_PER_PRODUCER = 2
  /\ enqueued = [p \in Producers |-> <<p * 2 + 1, p * 2 + 2>>]
  /\ qMainPc = "returned"
  /\ expected_total = 10

\* C23: the increments of the atomic strategy are totally ordered: after n
\* completed atomic_fetch_add calls the old values they were given are exactly
\* 0, 1, ..., n-1, no two calls got the same one, and the counter is n.
C23_FetchAddTotalOrder ==
  (\A s \in Scenarios : counterPtr[s] = "block") =>
     /\ counter["lse"] = IterationsDone("lse")
     /\ fetched = 0 .. IterationsDone("lse") - 1
     /\ Cardinality(fetched) = IterationsDone("lse")

\* C23 witness: several workers are in the middle of their atomic increments.
C23_Witness ==
  /\ NUM_THREADS >= 2
  /\ fetched = 0 .. 2
  /\ Cardinality({t \in Workers : t[1] = "lse" /\ thr[t].i >= 1}) >= 2
  /\ \E t \in Workers : thr[t].pc = "fetch_add"

\* How far a thread is inside one call of queue_enqueue or queue_dequeue; 0 when
\* it is in the caller (lines 79-85, 97-104).
CallStage(pc) ==
  CASE pc \in {"enq_load_tail", "deq_load_head"} -> 1
    [] pc \in {"enq_check", "deq_check"} -> 2
    [] pc \in {"enq_write", "deq_read"} -> 3
    [] pc \in {"enq_store", "deq_store"} -> 4
    [] OTHER -> 0

\* The step of producer p, and of consumer c, inside a call.
EnqueueStep(p) == EnqLoadTail(p) \/ EnqCheck(p) \/ EnqWrite(p) \/ EnqStore(p)

DequeueStep(c) == DeqLoadHead(c) \/ DeqCheck(c) \/ DeqRead(c) \/ DeqStore(c)

\* C24: a call of queue_enqueue or queue_dequeue never blocks. Inside a call the
\* thread's next step can always be taken, whatever the others do; every step
\* takes it further through the call or out of it, with failure after the test
\* or success after the store of the index, so a call is over in four steps; and
\* a new attempt after a failure begins only after the caller's yield.
C24_CallsNeverBlock ==
  [][/\ \A p \in Producers :
          /\ (Running /\ CallStage(prod[p].pc) > 0) => ENABLED EnqueueStep(p)
          /\ (CallStage(prod[p].pc) > 0 /\ prod'[p] # prod[p]) =>
               \/ CallStage(prod'[p].pc) = CallStage(prod[p].pc) + 1
               \/ prod[p].pc = "enq_check" /\ prod'[p].pc = "yield"
                    /\ enqueued'[p] = enqueued[p]
               \/ prod[p].pc = "enq_store" /\ prod'[p].pc \in {"enq_load_tail", "done"}
                    /\ Len(enqueued'[p]) = Len(enqueued[p]) + 1
          /\ (prod'[p].pc = "enq_load_tail" /\ prod[p].pc # "enq_load_tail") =>
               prod[p].pc \in {"start", "yield", "enq_store"}
     /\ \A c \in Consumers :
          /\ (Running /\ CallStage(cons[c].pc) > 0) => ENABLED DequeueStep(c)
          /\ (CallStage(cons[c].pc) > 0 /\ cons'[c] # cons[c]) =>
               \/ CallStage(cons'[c].pc) = CallStage(cons[c].pc) + 1
               \/ cons[c].pc = "deq_check" /\ cons'[c].pc = "yield"
                    /\ dequeued'[c] = dequeued[c]
               \/ cons[c].pc = "deq_store" /\ cons'[c].pc = "add"
                    /\ Len(dequeued'[c]) = Len(dequeued[c]) + 1
          /\ (cons'[c].pc = "deq_load_head" /\ cons[c].pc # "deq_load_head") =>
               cons[c].pc \in {"start", "yield", "add"}]_vars

\* C24 witness: an enqueue on the full queue has returned failure to a producer,
\* which is at its yield, while a consumer is inside a dequeue.
C24_Witness ==
  /\ \E p \in Producers :
       /\ prod[p].pc = "yield"
       /\ IsFull(prod[p].next_tail, queue.head)
  /\ \E c \in Consumers : CallStage(cons[c].pc) > 0

\* The sum of the first n entries of the sequence q.
RECURSIVE SeqSum(_, _)
SeqSum(q, n) == IF n = 0 THEN 0 ELSE SeqSum(q, n - 1) + q[n]

\* The sum over the consumers in S of the values each has added to total.
RECURSIVE AddedBy(_)
AddedBy(S) ==
  IF S = {} THEN 0
  ELSE LET c == CHOOSE x \in S : TRUE IN
         SeqSum(dequeued[c], cons[c].i) + AddedBy(S \ {c})

\* C25: the loops of producer_thread and consumer_thread count successes only. A
\* producer's i and item change only when an enqueue has returned 1, a failed
\* attempt is followed by an attempt with the same item, and a finished producer
\* has made num_items successful enqueues, of increasing values. A consumer's i
\* counts the dequeued values it has added to total, each once, and a finished
\* consumer has made num_items successful dequeues.
C25_RetryKeepsItem ==
  [][/\ \A p \in Producers :
          /\ (prod[p].pc \notin {"unborn", "start"} /\ prod'[p].item # prod[p].item) =>
               prod[p].pc = "enq_store" /\ enqueued'[p] = Append(enqueued[p], prod[p].item)
          /\ (prod[p].pc \notin {"unborn", "start"} /\ prod'[p].i # prod[p].i) =>
               prod[p].pc = "enq_store" /\ prod'[p].i = prod[p].i + 1
          /\ prod'[p].pc \notin {"unborn", "start"} =>
               Len(enqueued'[p]) = prod'[p].i
          /\ prod'[p].pc = "done" =>
               /\ Len(enqueued'[p]) = producer_args'[p].num_items
               /\ \A k \in 1 .. Len(enqueued'[p]) - 1 :
                    enqueued'[p][k] < enqueued'[p][k + 1]
     /\ \A c \in Consumers :
          /\ (cons[c].pc \notin {"unborn", "start"} /\ cons'[c].i # cons[c].i) =>
               /\ cons[c].pc = "add"
               /\ cons'[c].i = cons[c].i + 1
               /\ total' = total + dequeued[c][cons'[c].i]
          /\ cons'[c].pc \notin {"unborn", "start"} =>
               Len(dequeued'[c]) = cons'[c].i + (IF cons'[c].pc = "add" THEN 1 ELSE 0)
          /\ cons'[c].pc = "done" => Len(dequeued'[c]) = consumer_args'[c].num_items
     /\ total' = AddedBy(Consumers)']_vars

\* C25 witness: a producer's attempt at its second item has failed and it is at
\* its yield with that item, the consumer having taken a value already.
C25_Witness ==
  /\ \E p \in Producers :
       /\ prod[p].pc = "yield"
       /\ prod[p].i = 1
       /\ Len(enqueued[p]) = 1
  /\ \E c \in Consumers : cons[c].i >= 1

\* C26: the dequeue counts handed to the consumers add up to the number of items
\* produced, Q * ((P * M) / Q) = P * M, and when every thread has finished the
\* queue is empty.
C26_ConsumersDrainAll ==
  /\ qMainPc \notin {"init", "create_consumers"} =>
       /\ \A c \in Consumers : consumer_args[c].num_items = ItemsPerConsumer
       /\ nConsumers * ItemsPerConsumer = nProducers * ITEMS_PER_PRODUCER
  /\ (AllQueueThreadsDone /\ qMainPc \notin {"init", "create_consumers", "create_producers"}) =>
       queue.head = queue.tail

\* C27: the published indices only advance: whenever tail (or head) changes, its
\* new value is the value it held just before the store, plus one, modulo C.
C27_IndicesAdvanceByOne ==
  [][queue.size > 0 =>
       /\ queue'.tail # queue.tail => queue'.tail = (queue.tail + 1) % queue.size
       /\ queue'.head # queue.head => queue'.head = (queue.head + 1) % queue.size]_vars

\* C28: with the compiled constants the totals, kept in ints, are the sum of the
\* values 1 .. 2000000 with no overflow or wrap-around: every value added is
\* positive, so every addition leaves expected_total larger than it was.
C28_NoWrapAround ==
  [][qMainJ' = qMainJ + 1 => expected_total' > expected_total]_vars

\* C29: the manual loop is lock-free: a store-exclusive fails only when another
\* thread's store to the counter has committed since this thread's
\* load-exclusive, that is, when the counter is no longer the old_val it loaded.
C29_FailureMeansOtherCommitted ==
  [][\A t \in Workers :
       (thr[t].pc = "stxr" /\ thr'[t].pc = "ldxr") =>
          counter[thread_args[t].counter] # thr[t].old_val]_vars

\* C30: with one producer and one consumer a slot that holds a value not yet read
\* is never overwritten. The write of line 46 goes to a slot outside [head, tail)
\* whose last value, if it had one, has been read; and when line 61 publishes
\* the advanced head, the consumer has already copied out the slot it gives up.
C30_NoOverwriteBeforeRead ==
  [][/\ \A p \in Producers :
          (prod[p].pc = "enq_write" /\ prod'[p].pc = "enq_store") =>
            /\ prod[p].tail \notin freshSlots
            /\ prod[p].tail \notin RangeSlots
            /\ bufferMem'[prod[p].tail] = prod[p].item
     /\ \A c \in Consumers :
          (cons[c].pc = "deq_store" /\ cons'[c].pc = "add") =>
            /\ cons[c].head = queue.head
            /\ cons[c].src = "fresh"
            /\ cons[c].item = bufferMem[queue.head]
            /\ queue.head \notin freshSlots
     /\ RangeSlots' \subseteq freshSlots' \cup {cons'[c].head : c \in
                                  {x \in Consumers : cons'[x].pc = "deq_store"}}]_vars

\* C30 witness: the producer has gone round the buffer and written a slot again,
\* after the consumer had read the value that was there.
C30_Witness ==
  /\ nProducers = 1 /\ nConsumers = 1
  /\ prod[0].pc = "enq_store"
  /\ prod[0].i >= queue.size
  /\ Len(dequeued[0]) >= 1
  /\ prod[0].tail \in freshSlots

=============================================================================
